---- MODULE Spec2Model ----
(***************************************************************************)
(* The rule-based alert engine of src/rules.py: fourteen detection rules   *)
(* (A1..E2), the escalation pass F1 and the orchestrator run_all_rules,    *)
(* and the request handler get_alerts of src/main.py that calls it; the    *)
(* comment endpoints add_comment and delete_comment of src/main.py in JSON *)
(* storage mode.                                                           *)
(*                                                                         *)
(* Time is counted in whole hours.  A timestamp string is modelled as the  *)
(* pair <<day, hour>> it spells (hour in 0..23); the empty tuple is a      *)
(* string that datetime.fromisoformat rejects.  parse_time turns a pair    *)
(* into hours since the epoch.  The wall clock (datetime.utcnow()) is the  *)
(* variable now; every rule reads it when it is called.                    *)
(*                                                                         *)
(* A Python dict is modelled as a sequence of <<key, value>> pairs in      *)
(* insertion order, which is the order dict.items() iterates in.           *)
(***************************************************************************)
EXTENDS Integers, Sequences, FiniteSets, TLC

VARIABLES
    signals,     \* the list handed to run_all_rules
    now,         \* the wall clock, in hours since the epoch
    t0,          \* the clock when run_all_rules was entered
    pc,          \* position of run_all_rules: "idle", a rule, "F1", "done", "raised"
    alerts,      \* the local list `alerts` of run_all_rules
    candidates,  \* history: the concatenated candidate list handed to F1
    judged,      \* history: the window tests made, <<signal index, hours, verdict>>
    returned,    \* history: what each finished call of run_all_rules returned
    responses,   \* history: the responses get_alerts has sent
    alert_file,  \* the alert list last saved to ALERT_FILE
    raw_file,    \* the comment list stored in RAW_FILE
    reply        \* the reply to the last request of a comment endpoint

vars ==
    <<signals, now, t0, pc, alerts, candidates, judged, returned, responses, alert_file,
      raw_file, reply>>

----------------------------------------------------------------------------
(* Bounds of the model *)

\* repetitions of one signal, or of one pair of signals, at the head of the input list
MaxBulk == 9
\* further, freely chosen signals after them
MaxTail == 1
\* hours the wall clock may advance while one run is in progress
MaxDrift == 1
\* length of the input lists of the clock-drift specification
MaxClockLen == 2
\* length of the signal lists the request handler loads
MaxApiLen == 3
\* requests served in one behaviour
MaxRequests == 2
\* comments RAW_FILE may hold
MaxComments == 3

----------------------------------------------------------------------------
(* Configuration and helpers: src/rules.py 7-22 *)

\* the weights of low and high exchanged
SEVERITY_WEIGHTS_BUG_swapped == <<<<"low", 3>>, <<"medium", 2>>, <<"high", 1>>>>

SEVERITY_WEIGHTS == <<<<"low", 1>>, <<"medium", 2>>, <<"high", 3>>>>

\* dict.get(key, default) on a dict kept as a sequence of pairs
DictGet(d, k, default) ==
    IF \E i \in DOMAIN d : d[i][1] = k
    THEN d[CHOOSE i \in DOMAIN d : d[i][1] = k][2]
    ELSE default

\* d[k] += inc on a defaultdict(int): a missing key is inserted at the end
DictAdd(d, k, inc) ==
    IF \E i \in DOMAIN d : d[i][1] = k
    THEN [i \in DOMAIN d |-> IF d[i][1] = k THEN <<k, d[i][2] + inc>> ELSE d[i]]
    ELSE Append(d, <<k, inc>>)

\* d[k][field] += inc on a defaultdict of two-counter dicts
DictAddField(d, k, zero, field, inc) ==
    IF \E i \in DOMAIN d : d[i][1] = k
    THEN [i \in DOMAIN d |->
            IF d[i][1] = k
            THEN <<k, [d[i][2] EXCEPT ![field] = @ + inc]>>
            ELSE d[i]]
    ELSE Append(d, <<k, [zero EXCEPT ![field] = @ + inc]>>)

\* fromisoformat raises ValueError on a string that is no timestamp
parse_ok(ts) == Len(ts) = 2

parse_time(ts) == ts[1] * 24 + ts[2]

\* the hour field of the parsed datetime
hour_of(ts) == ts[2]

within_hours(ts, hours) == parse_time(ts) >= now - hours

\* s.get("symptoms", [])
symptoms_of(s) == IF "symptoms" \in DOMAIN s THEN s.symptoms ELSE <<>>

\* set(list)
SetOf(list) == {list[i] : i \in DOMAIN list}

Alert(rule, level, village, reason) ==
    [rule |-> rule, level |-> level, village |-> village, reason |-> reason]

\* a call either returns a list or raises
Return(list) == [ok |-> TRUE, alerts |-> list]
Raise == [ok |-> FALSE, alerts |-> <<>>]

\* the loop `for s in signals: if ...: counts[s["village"]] += 1`, over the
\* signals the `if` lets through
RECURSIVE CountLoop(_, _)
CountLoop(sel, i) ==
    IF i = 0 THEN <<>>
    ELSE DictAdd(CountLoop(sel, i - 1), sel[i].village, 1)

\* parse_time raises on some signal of the list
Malformed(sel) == \E i \in DOMAIN sel : ~parse_ok(sel[i].timestamp)

----------------------------------------------------------------------------
(* Rule A: severity based.  src/rules.py 27-80 *)

\* the loop of A1 meets s["severity"] of a signal without the key, or
\* s["village"] of a high signal inside the window without the key
A1_KeyError(sigs) ==
    \E i \in DOMAIN sigs :
        \/ "severity" \notin DOMAIN sigs[i]
        \/ /\ sigs[i].severity = "high"
           /\ parse_ok(sigs[i].timestamp)
           /\ within_hours(sigs[i].timestamp, 24)
           /\ "village" \notin DOMAIN sigs[i]

\* the threshold compared with > in place of >=
rule_A1_BUG_gt(sigs) ==
    IF Malformed(SelectSeq(sigs, LAMBDA s : s.severity = "high")) THEN Raise
    ELSE LET counts == LET sel == SelectSeq(sigs, LAMBDA s :
                                 s.severity = "high" /\ within_hours(s.timestamp, 24))
                       IN  CountLoop(sel, Len(sel))
         IN  LET hit == SelectSeq(counts, LAMBDA e : LET c == e[2] IN c > 3)
             IN  Return([i \in DOMAIN hit |->
                    LET v == hit[i][1]
                        c == hit[i][2]
                    IN  Alert("A1_HIGH_SEVERITY_CLUSTER", "HIGH", v,
                              <<ToString(c), " high severity reports in 24h">>)])

\* `s["severity"] == "high" and within_hours(...)`: only a high signal is parsed
rule_A1_high_severity_cluster(sigs) ==
    IF A1_KeyError(sigs) THEN Raise
    ELSE IF Malformed(SelectSeq(sigs, LAMBDA s : s.severity = "high")) THEN Raise
    ELSE LET counts == LET sel == SelectSeq(sigs, LAMBDA s :
                                 s.severity = "high" /\ within_hours(s.timestamp, 24))
                       IN  CountLoop(sel, Len(sel))
         IN  LET hit == SelectSeq(counts, LAMBDA e : LET c == e[2] IN c >= 3)
             IN  Return([i \in DOMAIN hit |->
                    LET v == hit[i][1]
                        c == hit[i][2]
                    IN  Alert("A1_HIGH_SEVERITY_CLUSTER", "HIGH", v,
                              <<ToString(c), " high severity reports in 24h">>)])

\* village_map[s["village"]][s["severity"]] += 1 for high and medium within 24h
RECURSIVE A2_village_map(_, _)
A2_village_map(sel, i) ==
    IF i = 0 THEN <<>>
    ELSE DictAddField(A2_village_map(sel, i - 1), sel[i].village,
                      [high |-> 0, medium |-> 0], sel[i].severity, 1)

\* `or` written as `and`
rule_A2_BUG_and(sigs) ==
    IF Malformed(sigs) THEN Raise
    ELSE LET sel == SelectSeq(sigs, LAMBDA s :
                        within_hours(s.timestamp, 24) /\ s.severity \in {"high", "medium"})
             village_map == A2_village_map(sel, Len(sel))
         IN  LET hit == SelectSeq(village_map, LAMBDA e :
                 LET c == e[2] IN c.high >= 2 /\ (c.high >= 1 /\ c.medium >= 2))
             IN  Return([i \in DOMAIN hit |->
                    LET v == hit[i][1]
                        c == hit[i][2]
                    IN  Alert("A2_MIXED_SEVERITY", "HIGH", v,
                              <<"Mixed high and medium severity spike">>)])

rule_A2_mixed_severity(sigs) ==
    IF Malformed(sigs) THEN Raise
    ELSE LET sel == SelectSeq(sigs, LAMBDA s :
                        within_hours(s.timestamp, 24) /\ s.severity \in {"high", "medium"})
             village_map == A2_village_map(sel, Len(sel))
         IN  LET hit == SelectSeq(village_map, LAMBDA e :
                 LET c == e[2] IN c.high >= 2 \/ (c.high >= 1 /\ c.medium >= 2))
             IN  Return([i \in DOMAIN hit |->
                    LET v == hit[i][1]
                        c == hit[i][2]
                    IN  Alert("A2_MIXED_SEVERITY", "HIGH", v,
                              <<"Mixed high and medium severity spike">>)])

\* `s["severity"] == "medium" and within_hours(...)`: only a medium signal is parsed
rule_A3_repeated_medium(sigs) ==
    IF Malformed(SelectSeq(sigs, LAMBDA s : s.severity = "medium")) THEN Raise
    ELSE LET sel == SelectSeq(sigs, LAMBDA s :
                        s.severity = "medium" /\ within_hours(s.timestamp, 48))
             counts == CountLoop(sel, Len(sel))
         IN  LET hit == SelectSeq(counts, LAMBDA e : LET c == e[2] IN c >= 5)
             IN  Return([i \in DOMAIN hit |->
                    LET v == hit[i][1]
                        c == hit[i][2]
                    IN  Alert("A3_REPEATED_MEDIUM", "MEDIUM", v,
                              <<ToString(c), " medium severity reports in 48h">>)])

----------------------------------------------------------------------------
(* Rule B: volume based.  src/rules.py 85-137 *)

\* the loop stops at the first signal outside the window instead of skipping it
rule_B1_BUG_break(sigs) ==
    IF Malformed(sigs) THEN Raise
    ELSE LET stop == {i \in DOMAIN sigs : ~within_hours(sigs[i].timestamp, 24)}
             upto == IF stop = {} THEN Len(sigs)
                     ELSE (CHOOSE i \in stop : \A j \in stop : i <= j) - 1
             sel == SubSeq(sigs, 1, upto)
             counts == CountLoop(sel, Len(sel))
         IN  LET hit == SelectSeq(counts, LAMBDA e : LET c == e[2] IN c >= 5)
             IN  Return([i \in DOMAIN hit |->
                    LET v == hit[i][1]
                        c == hit[i][2]
                    IN  Alert("B1_VOLUME_24H", "MEDIUM", v,
                              <<ToString(c), " reports in 24h">>)])

rule_B1_volume_24h(sigs) ==
    IF Malformed(sigs) THEN Raise
    ELSE LET sel == SelectSeq(sigs, LAMBDA s : within_hours(s.timestamp, 24))
             counts == CountLoop(sel, Len(sel))
         IN  LET hit == SelectSeq(counts, LAMBDA e : LET c == e[2] IN c >= 5)
             IN  Return([i \in DOMAIN hit |->
                    LET v == hit[i][1]
                        c == hit[i][2]
                    IN  Alert("B1_VOLUME_24H", "MEDIUM", v,
                              <<ToString(c), " reports in 24h">>)])

\* the 48h rule given a threshold twice that of the 24h rule
rule_B2_BUG_threshold(sigs) ==
    IF Malformed(sigs) THEN Raise
    ELSE LET sel == SelectSeq(sigs, LAMBDA s : within_hours(s.timestamp, 48))
             counts == CountLoop(sel, Len(sel))
         IN  LET hit == SelectSeq(counts, LAMBDA e : LET c == e[2] IN c >= 10)
             IN  Return([i \in DOMAIN hit |->
                    LET v == hit[i][1]
                        c == hit[i][2]
                    IN  Alert("B2_VOLUME_48H", "HIGH", v,
                              <<ToString(c), " reports in 48h">>)])

rule_B2_volume_48h(sigs) ==
    IF Malformed(sigs) THEN Raise
    ELSE LET sel == SelectSeq(sigs, LAMBDA s : within_hours(s.timestamp, 48))
             counts == CountLoop(sel, Len(sel))
         IN  LET hit == SelectSeq(counts, LAMBDA e : LET c == e[2] IN c >= 5)
             IN  Return([i \in DOMAIN hit |->
                    LET v == hit[i][1]
                        c == hit[i][2]
                    IN  Alert("B2_VOLUME_48H", "HIGH", v,
                              <<ToString(c), " reports in 48h">>)])

\* the extreme-volume rule with the 24h window of B1
rule_B3_BUG_24h(sigs) ==
    IF Malformed(sigs) THEN Raise
    ELSE LET sel == SelectSeq(sigs, LAMBDA s : within_hours(s.timestamp, 24))
             counts == CountLoop(sel, Len(sel))
         IN  LET hit == SelectSeq(counts, LAMBDA e : LET c == e[2] IN c >= 10)
             IN  Return([i \in DOMAIN hit |->
                    LET v == hit[i][1]
                        c == hit[i][2]
                    IN  Alert("B3_EXTREME_VOLUME", "CRITICAL", v,
                              <<ToString(c), " reports in 48h">>)])

rule_B3_extreme_volume(sigs) ==
    IF Malformed(sigs) THEN Raise
    ELSE LET sel == SelectSeq(sigs, LAMBDA s : within_hours(s.timestamp, 48))
             counts == CountLoop(sel, Len(sel))
         IN  LET hit == SelectSeq(counts, LAMBDA e : LET c == e[2] IN c >= 10)
             IN  Return([i \in DOMAIN hit |->
                    LET v == hit[i][1]
                        c == hit[i][2]
                    IN  Alert("B3_EXTREME_VOLUME", "CRITICAL", v,
                              <<ToString(c), " reports in 48h">>)])

----------------------------------------------------------------------------
(* Rule C: symptom patterns.  src/rules.py 142-191 *)

\* the alert carries the signal's severity field in place of its village
rule_C1_BUG_field(sigs) ==
    LET sel == SelectSeq(sigs, LAMBDA s : Cardinality(SetOf(symptoms_of(s))) >= 3)
    IN  Return([i \in DOMAIN sel |->
                  Alert("C1_SYMPTOM_DIVERSITY", "MEDIUM", sel[i].severity,
                        <<"Single report has 3+ symptoms">>)])

\* one alert per qualifying signal; no timestamp is read
\* the symptoms counted with len(list) in place of len(set(list))
rule_C1_BUG_len(sigs) ==
    LET sel == SelectSeq(sigs, LAMBDA s : Len(symptoms_of(s)) >= 3)
    IN  Return([i \in DOMAIN sel |->
                  Alert("C1_SYMPTOM_DIVERSITY", "MEDIUM", sel[i].village,
                        <<"Single report has 3+ symptoms">>)])

\* the rule given the 24h lookback window of its neighbours
rule_C1_BUG_window(sigs) ==
    IF Malformed(sigs) THEN Raise
    ELSE LET sel == SelectSeq(sigs, LAMBDA s :
                 /\ within_hours(s.timestamp, 24)
                 /\ Cardinality(SetOf(symptoms_of(s))) >= 3)
         IN  Return([i \in DOMAIN sel |->
                       Alert("C1_SYMPTOM_DIVERSITY", "MEDIUM", sel[i].village,
                             <<"Single report has 3+ symptoms">>)])

rule_C1_symptom_diversity(sigs) ==
    LET sel == SelectSeq(sigs, LAMBDA s : Cardinality(SetOf(symptoms_of(s))) >= 3)
    IN  Return([i \in DOMAIN sel |->
                  Alert("C1_SYMPTOM_DIVERSITY", "MEDIUM", sel[i].village,
                        <<"Single report has 3+ symptoms">>)])

rule_C2_fever_loose_motion(sigs) ==
    IF Malformed(sigs) THEN Raise
    ELSE LET sel == SelectSeq(sigs, LAMBDA s :
                        /\ within_hours(s.timestamp, 24)
                        /\ "fever" \in SetOf(symptoms_of(s))
                        /\ "loose motion" \in SetOf(symptoms_of(s)))
             counts == CountLoop(sel, Len(sel))
         IN  LET hit == SelectSeq(counts, LAMBDA e : LET c == e[2] IN c >= 3)
             IN  Return([i \in DOMAIN hit |->
                    LET v == hit[i][1]
                        c == hit[i][2]
                    IN  Alert("C2_FEVER_LOOSE_MOTION", "HIGH", v,
                              <<"Fever + loose motion cluster">>)])

rule_C3_weakness_dominant(sigs) ==
    IF Malformed(sigs) THEN Raise
    ELSE LET sel == SelectSeq(sigs, LAMBDA s :
                        /\ within_hours(s.timestamp, 24)
                        /\ "weakness" \in SetOf(symptoms_of(s)))
             counts == CountLoop(sel, Len(sel))
         IN  LET hit == SelectSeq(counts, LAMBDA e : LET c == e[2] IN c >= 4)
             IN  Return([i \in DOMAIN hit |->
                    LET v == hit[i][1]
                        c == hit[i][2]
                    IN  Alert("C3_WEAKNESS_DOMINANT", "MEDIUM", v,
                              <<"Weakness reported frequently">>)])

----------------------------------------------------------------------------
(* Rule D: trend based.  src/rules.py 196-254 *)

\* curr: now-12h <= ts;  prev: now-24h <= ts < now-12h;  older signals add no key
D1_field(s) ==
    IF now - 12 <= parse_time(s.timestamp) THEN "curr"
    ELSE IF now - 24 <= parse_time(s.timestamp) /\ parse_time(s.timestamp) < now - 12
         THEN "prev" ELSE "none"

RECURSIVE D1_village_counts(_, _)
D1_village_counts(sigs, i) ==
    IF i = 0 THEN <<>>
    ELSE LET d == D1_village_counts(sigs, i - 1)
         IN  IF D1_field(sigs[i]) = "none" THEN d
             ELSE DictAddField(d, sigs[i].village, [prev |-> 0, curr |-> 0],
                               D1_field(sigs[i]), 1)

rule_D1_rising_trend(sigs) ==
    IF Malformed(sigs) THEN Raise
    ELSE LET hit == SelectSeq(D1_village_counts(sigs, Len(sigs)), LAMBDA e :
            LET c == e[2] IN c.curr > c.prev /\ c.curr >= 3)
             IN  Return([i \in DOMAIN hit |->
                    LET v == hit[i][1]
                        c == hit[i][2]
                    IN  Alert("D1_RISING_TREND", "MEDIUM", v,
                              <<"Rising report trend">>)])

\* village_hours[s["village"]].add(ts.hour) for ts >= utcnow() - 24h
RECURSIVE D2_village_hours(_, _)
D2_village_hours(sel, i) ==
    IF i = 0 THEN <<>>
    ELSE LET d == D2_village_hours(sel, i - 1)
             k == sel[i].village
             h == hour_of(sel[i].timestamp)
         IN  IF \E j \in DOMAIN d : d[j][1] = k
             THEN [j \in DOMAIN d |->
                     IF d[j][1] = k THEN <<k, d[j][2] \cup {h}>> ELSE d[j]]
             ELSE Append(d, <<k, {h}>>)

rule_D2_continuous_reporting(sigs) ==
    IF Malformed(sigs) THEN Raise
    ELSE LET sel == SelectSeq(sigs, LAMBDA s : parse_time(s.timestamp) >= now - 24)
         IN  LET hit == SelectSeq(D2_village_hours(sel, Len(sel)), LAMBDA e :
                 LET hours == e[2] IN Cardinality(hours) >= 4)
             IN  Return([i \in DOMAIN hit |->
                    LET v == hit[i][1]
                        hours == hit[i][2]
                    IN  Alert("D2_CONTINUOUS_REPORTING", "MEDIUM", v,
                              <<"Reports coming continuously">>)])

rule_D3_long_tail(sigs) ==
    IF Malformed(sigs) THEN Raise
    ELSE LET sel == SelectSeq(sigs, LAMBDA s :
                        within_hours(s.timestamp, 72) /\ s.severity \in {"low", "medium"})
             counts == CountLoop(sel, Len(sel))
         IN  LET hit == SelectSeq(counts, LAMBDA e : LET c == e[2] IN c >= 10)
             IN  Return([i \in DOMAIN hit |->
                    LET v == hit[i][1]
                        c == hit[i][2]
                    IN  Alert("D3_LONG_TAIL", "MEDIUM", v,
                              <<"Persistent low/medium reports">>)])

----------------------------------------------------------------------------
(* Rule E: weighted score.  src/rules.py 259-299 *)

\* a severity without a weight is given the weight 1
RECURSIVE E1_scores_BUG_default(_, _)
E1_scores_BUG_default(sel, i) ==
    IF i = 0 THEN <<>>
    ELSE DictAdd(E1_scores_BUG_default(sel, i - 1), sel[i].village,
                 DictGet(SEVERITY_WEIGHTS, sel[i].severity, 1))

\* the loop `scores[s["village"]] += SEVERITY_WEIGHTS.get(s["severity"], 0)`
RECURSIVE E1_scores(_, _)
E1_scores(sel, i) ==
    IF i = 0 THEN <<>>
    ELSE DictAdd(E1_scores(sel, i - 1), sel[i].village,
                 DictGet(SEVERITY_WEIGHTS, sel[i].severity, 0))

\* the threshold compared with > in place of >=
rule_E1_BUG_gt(sigs) ==
    IF Malformed(sigs) THEN Raise
    ELSE LET sel == SelectSeq(sigs, LAMBDA s : within_hours(s.timestamp, 24))
         IN  LET hit == SelectSeq(E1_scores(sel, Len(sel)), LAMBDA e :
                 LET score == e[2] IN score > 10)
             IN  Return([i \in DOMAIN hit |->
                    LET v == hit[i][1]
                        score == hit[i][2]
                    IN  Alert("E1_WEIGHTED_SCORE", "HIGH", v,
                              <<"Severity score ", ToString(score), " in 24h">>)])

rule_E1_weighted_score(sigs) ==
    IF Malformed(sigs) THEN Raise
    ELSE LET sel == SelectSeq(sigs, LAMBDA s : within_hours(s.timestamp, 24))
         IN  LET hit == SelectSeq(E1_scores(sel, Len(sel)), LAMBDA e :
                 LET score == e[2] IN score >= 10)
             IN  Return([i \in DOMAIN hit |->
                    LET v == hit[i][1]
                        score == hit[i][2]
                    IN  Alert("E1_WEIGHTED_SCORE", "HIGH", v,
                              <<"Severity score ", ToString(score), " in 24h">>)])

\* curr: now-24h <= ts;  prev: now-48h <= ts < now-24h
E2_field(s) ==
    IF now - 24 <= parse_time(s.timestamp) THEN "curr"
    ELSE IF now - 48 <= parse_time(s.timestamp) /\ parse_time(s.timestamp) < now - 24
         THEN "prev" ELSE "none"

RECURSIVE E2_scores(_, _)
E2_scores(sigs, i) ==
    IF i = 0 THEN <<>>
    ELSE LET d == E2_scores(sigs, i - 1)
         IN  IF E2_field(sigs[i]) = "none" THEN d
             ELSE DictAddField(d, sigs[i].village, [prev |-> 0, curr |-> 0],
                               E2_field(sigs[i]),
                               DictGet(SEVERITY_WEIGHTS, sigs[i].severity, 0))

\* the test prev > 0 left out
rule_E2_BUG_zero(sigs) ==
    IF Malformed(sigs) THEN Raise
    ELSE LET hit == SelectSeq(E2_scores(sigs, Len(sigs)), LAMBDA e :
            LET s == e[2] IN 2 * s.curr >= 3 * s.prev)
             IN  Return([i \in DOMAIN hit |->
                    LET v == hit[i][1]
                        s == hit[i][2]
                    IN  Alert("E2_SCORE_GROWTH", "MEDIUM", v,
                              <<"Severity score rising rapidly">>)])

\* curr >= 1.5 * prev on integers is 2 * curr >= 3 * prev
rule_E2_score_growth(sigs) ==
    IF Malformed(sigs) THEN Raise
    ELSE LET hit == SelectSeq(E2_scores(sigs, Len(sigs)), LAMBDA e :
            LET s == e[2] IN s.prev > 0 /\ 2 * s.curr >= 3 * s.prev)
             IN  Return([i \in DOMAIN hit |->
                    LET v == hit[i][1]
                        s == hit[i][2]
                    IN  Alert("E2_SCORE_GROWTH", "MEDIUM", v,
                              <<"Severity score rising rapidly">>)])

----------------------------------------------------------------------------
(* Rule F: the escalation pass.  src/rules.py 304-317 *)

\* the loop `for a in alerts: village_counts[a["village"]] += 1`
RECURSIVE F1_village_counts(_, _)
F1_village_counts(list, i) ==
    IF i = 0 THEN <<>>
    ELSE DictAdd(F1_village_counts(list, i - 1), list[i].village, 1)

\* singletons are kept too, at their own level
rule_F1_BUG_keep(list) ==
    LET village_counts == F1_village_counts(list, Len(list))
    IN  [i \in DOMAIN list |->
            IF DictGet(village_counts, list[i].village, 0) >= 2
            THEN [list[i] EXCEPT !.level = "HIGH",
                                 !.reason = @ \o <<" (multiple rules triggered)">>]
            ELSE list[i]]

\* the kept alerts come out last first
rule_F1_BUG_reversed(list) ==
    LET village_counts == F1_village_counts(list, Len(list))
        kept == SelectSeq(list, LAMBDA a : DictGet(village_counts, a.village, 0) >= 2)
    IN  [i \in DOMAIN kept |->
            [kept[Len(kept) + 1 - i] EXCEPT !.level = "HIGH",
                                           !.reason = @ \o <<" (multiple rules triggered)">>]]

rule_F1_multi_rule(list) ==
    LET village_counts == F1_village_counts(list, Len(list))
        kept == SelectSeq(list, LAMBDA a : DictGet(village_counts, a.village, 0) >= 2)
    IN  [i \in DOMAIN kept |->
            [kept[i] EXCEPT !.level = "HIGH",
                            !.reason = @ \o <<" (multiple rules triggered)">>]]

----------------------------------------------------------------------------
(* The orchestrator.  src/rules.py 322-346 *)

RuleOrder ==
    <<"A1", "A2", "A3", "B1", "B2", "B3", "C1", "C2", "C3", "D1", "D2", "D3", "E1", "E2">>

Rules == SetOf(RuleOrder)

\* the call run_all_rules makes at position r
CallOf(r, sigs) ==
    CASE r = "A1" -> rule_A1_high_severity_cluster(sigs)
      [] r = "A2" -> rule_A2_mixed_severity(sigs)
      [] r = "A3" -> rule_A3_repeated_medium(sigs)
      [] r = "B1" -> rule_B1_volume_24h(sigs)
      [] r = "B2" -> rule_B2_volume_48h(sigs)
      [] r = "B3" -> rule_B3_extreme_volume(sigs)
      [] r = "C1" -> rule_C1_symptom_diversity(sigs)
      [] r = "C2" -> rule_C2_fever_loose_motion(sigs)
      [] r = "C3" -> rule_C3_weakness_dominant(sigs)
      [] r = "D1" -> rule_D1_rising_trend(sigs)
      [] r = "D2" -> rule_D2_continuous_reporting(sigs)
      [] r = "D3" -> rule_D3_long_tail(sigs)
      [] r = "E1" -> rule_E1_weighted_score(sigs)
      [] r = "E2" -> rule_E2_score_growth(sigs)

\* the statement after the call at position r
After(r) ==
    LET i == CHOOSE k \in DOMAIN RuleOrder : RuleOrder[k] = r
    IN  IF i = Len(RuleOrder) THEN "F1" ELSE RuleOrder[i + 1]

\* run_all_rules as a function of its argument, every rule reading one clock value
RECURSIVE Collect(_, _)
Collect(sigs, n) ==
    IF n = 0 THEN Return(<<>>)
    ELSE LET before == Collect(sigs, n - 1)
         IN  IF ~before.ok THEN Raise
             ELSE LET got == CallOf(RuleOrder[n], sigs)
                  IN  IF got.ok THEN Return(before.alerts \o got.alerts) ELSE Raise

run_all_rules(sigs) ==
    LET all == Collect(sigs, Len(RuleOrder))
    IN  IF all.ok THEN Return(rule_F1_multi_rule(all.alerts)) ELSE Raise

----------------------------------------------------------------------------
(* The window tests a rule makes: which signals it compares with which     *)
(* lookback.  A1 and A3 test only the signals of their severity; D1 and E2 *)
(* make their second test only when the first failed; C1 makes none.       *)

Tests(r, sigs) ==
    LET all(h) == {<<i, h>> : i \in DOMAIN sigs}
        sev(x, h) == {<<i, h>> : i \in {j \in DOMAIN sigs : sigs[j].severity = x}}
        older(h1, h2) ==
            {<<i, h2>> : i \in {j \in DOMAIN sigs : ~within_hours(sigs[j].timestamp, h1)}}
    IN  CASE r = "A1" -> sev("high", 24)
          [] r = "A3" -> sev("medium", 48)
          [] r \in {"A2", "B1", "C2", "C3", "D2", "E1"} -> all(24)
          [] r \in {"B2", "B3"} -> all(48)
          [] r = "C1" -> {}
          [] r = "D1" -> all(12) \cup older(12, 24)
          [] r = "D3" -> all(72)
          [] r = "E2" -> all(24) \cup older(24, 48)

Verdicts(r, sigs) ==
    {<<t[1], t[2], within_hours(sigs[t[1]].timestamp, t[2])>> : t \in Tests(r, sigs)}

----------------------------------------------------------------------------
(* Inputs *)

Villages == {"Riverside", "Lakeview"}

\* "severe" stands for any string that is not low, medium or high
Severities == {"low", "medium", "high", "severe"}

Signal(v, sev, ts, sym) ==
    [village |-> v, severity |-> sev, timestamp |-> ts, symptoms |-> sym]

\* the clock readings a run starts at: day 4, 00:00 and 01:00
StartClocks == {96, 97}

Fresh == <<4, 0>>
Diverse == <<"fever", "loose motion", "weakness">>

\* the signals a list may repeat at its head
BulkKinds ==
    { Signal("Riverside", "high", Fresh, <<>>),
      Signal("Lakeview", "medium", Fresh, <<>>),
      Signal("Lakeview", "low", Fresh, Diverse),
      Signal("Riverside", "medium", <<2, 0>>, <<>>),
      Signal("Riverside", "low", <<3, 0>>, <<>>),
      Signal("Lakeview", "high", <<3, 12>>, <<>>) }

\* two signals of different villages a list may repeat in turn
MixedKinds ==
    { <<Signal("Riverside", "high", Fresh, <<>>), Signal("Lakeview", "medium", Fresh, <<>>)>>,
      <<Signal("Lakeview", "low", Fresh, Diverse), Signal("Riverside", "medium", <<2, 0>>, <<>>)>> }

\* the signals that may follow them; one has no symptoms field, two have a
\* timestamp that does not parse, one is four days old
TailKinds ==
    { Signal("Riverside", "high", Fresh, Diverse),
      Signal("Riverside", "high", <<3, 0>>, <<>>),
      Signal("Riverside", "medium", <<2, 0>>, <<>>),
      Signal("Lakeview", "medium", Fresh, Diverse),
      Signal("Riverside", "low", Fresh, Diverse),
      Signal("Riverside", "severe", Fresh, <<>>),
      Signal("Riverside", "high", <<>>, <<>>),
      Signal("Riverside", "low", <<4, 2>>, <<"fever", "fever", "weakness">>),
      [village |-> "Riverside", severity |-> "medium", timestamp |-> <<3, 12>>],
      Signal("Lakeview", "low", <<>>, Diverse),
      Signal("Lakeview", "low", <<0, 0>>, Diverse) }

\* the list l, n times over
RECURSIVE Repeat(_, _)
Repeat(l, n) == IF n = 0 THEN <<>> ELSE Repeat(l, n - 1) \o l

RECURSIVE ListsUpTo(_, _)
ListsUpTo(S, n) ==
    IF n = 0 THEN {<<>>}
    ELSE LET shorter == ListsUpTo(S, n - 1)
         IN  shorter \cup {Append(l, s) : l \in shorter, s \in S}

Inputs ==
    {Repeat(head, n) \o tail :
        head \in {<<b>> : b \in BulkKinds} \cup MixedKinds,
        n \in 0..MaxBulk,
        tail \in ListsUpTo(TailKinds, MaxTail)}

ClockInputs == ListsUpTo({s \in TailKinds : s.village = "Riverside"}, MaxClockLen)

\* the signals of the lists get_alerts loads.  One has a timestamp that does
\* not parse, one has no severity key, one has no village key; the signal
\* without a village is high and fresh, so A1 is the rule that reads the key.
ApiKinds ==
    { Signal("Riverside", "high", Fresh, Diverse),
      Signal("Riverside", "high", Fresh, <<>>),
      Signal("Lakeview", "low", <<>>, Diverse),
      [village |-> "Riverside", timestamp |-> Fresh, symptoms |-> <<>>],
      [severity |-> "high", timestamp |-> Fresh, symptoms |-> <<>>] }

ApiInputs == ListsUpTo(ApiKinds, MaxApiLen)

\* the values of the query parameter limit
Limits == {1, 100}

----------------------------------------------------------------------------
(* The state machine *)

Init ==
    /\ signals \in Inputs
    /\ now \in StartClocks
    /\ t0 = now
    /\ pc = "idle"
    /\ alerts = <<>>
    /\ candidates = <<>>
    /\ judged = {}
    /\ returned = <<>>
    /\ responses = <<>>
    /\ alert_file = <<>>
    /\ raw_file = <<>>
    /\ reply = <<>>

InitClock ==
    /\ signals \in ClockInputs
    /\ now \in StartClocks
    /\ t0 = now
    /\ pc = "idle"
    /\ alerts = <<>>
    /\ candidates = <<>>
    /\ judged = {}
    /\ returned = <<>>
    /\ responses = <<>>
    /\ alert_file = <<>>
    /\ raw_file = <<>>
    /\ reply = <<>>

\* the list of the call before is kept, as a module-level list would be
Enter_BUG_keep ==
    /\ pc = "idle"
    /\ pc' = RuleOrder[1]
    /\ alerts' = alerts
    /\ t0' = now
    /\ UNCHANGED <<signals, now, candidates, judged, returned, responses, alert_file, raw_file, reply>>

\* run_all_rules is entered: alerts = []
Enter ==
    /\ pc = "idle"
    /\ pc' = RuleOrder[1]
    /\ alerts' = <<>>
    /\ t0' = now
    /\ UNCHANGED <<signals, now, candidates, judged, returned, responses, alert_file, raw_file, reply>>

\* an exception of a rule is swallowed and the run goes on
Call_BUG_swallow(r) ==
    /\ pc = r
    /\ LET got == CallOf(r, signals)
       IN  IF got.ok
           THEN /\ alerts' = alerts \o got.alerts
                /\ judged' = judged \cup Verdicts(r, signals)
           ELSE UNCHANGED <<alerts, judged>>
    /\ pc' = After(r)
    /\ UNCHANGED <<signals, now, t0, candidates, returned, responses, alert_file, raw_file, reply>>

\* alerts += rule_X(signals); an exception leaves run_all_rules with no result
Call(r) ==
    /\ pc = r
    /\ LET got == CallOf(r, signals)
       IN  IF got.ok
           THEN /\ alerts' = alerts \o got.alerts
                /\ judged' = judged \cup Verdicts(r, signals)
                /\ pc' = After(r)
           ELSE /\ pc' = "raised"
                /\ UNCHANGED <<alerts, judged>>
    /\ UNCHANGED <<signals, now, t0, candidates, returned, responses, alert_file, raw_file, reply>>

\* alerts = rule_F1_multi_rule(alerts); return alerts
Escalate ==
    /\ pc = "F1"
    /\ candidates' = alerts
    /\ alerts' = rule_F1_multi_rule(alerts)
    /\ pc' = "done"
    /\ UNCHANGED <<signals, now, t0, judged, returned, responses, alert_file, raw_file, reply>>

\* the wall clock advances while the run is in progress
Tick ==
    /\ pc \in Rules
    /\ now - t0 < MaxDrift
    /\ now' = now + 1
    /\ UNCHANGED <<signals, t0, pc, alerts, candidates, judged, returned, responses, alert_file, raw_file, reply>>

Next == Enter \/ (\E r \in Rules : Call(r)) \/ Escalate

NextClock == Next \/ Tick

\* every clock read of one run returns the same instant
Spec == Init /\ [][Next]_vars

\* the clock may advance between the rule calls of one run
SpecClock == InitClock /\ [][NextClock]_vars

----------------------------------------------------------------------------
(* The request handler.  src/main.py 477-530 *)

\* the slice list[:limit]
Slice(list, limit) ==
    IF limit >= Len(list) THEN list
    ELSE IF limit >= 0 THEN SubSeq(list, 1, limit)
    ELSE SubSeq(list, 1, IF Len(list) + limit > 0 THEN Len(list) + limit ELSE 0)

Response(count, list, error) == [alert_count |-> count, alerts |-> list, error |-> error]

InitApi ==
    /\ signals \in ApiInputs
    /\ now \in StartClocks
    /\ t0 = now
    /\ pc = "idle"
    /\ alerts = <<>>
    /\ candidates = <<>>
    /\ judged = {}
    /\ returned = <<>>
    /\ responses = <<>>
    /\ alert_file = <<>>
    /\ raw_file = <<>>
    /\ reply = <<>>

\* `if not signals: return {... "alert_count": 0, "alerts": [] ...}`
get_alerts_empty ==
    /\ pc = "idle"
    /\ Len(responses) < MaxRequests
    /\ signals = <<>>
    /\ responses' = Append(responses, Response(0, <<>>, FALSE))
    /\ UNCHANGED <<signals, now, t0, pc, alerts, candidates, judged, returned, alert_file, raw_file, reply>>

\* `try: alerts = run_all_rules(signals)`: the call is made
get_alerts_call ==
    /\ Len(responses) < MaxRequests
    /\ signals # <<>>
    /\ Enter

\* run_all_rules has returned: the list is saved and sent, cut to limit
get_alerts_return(limit) ==
    /\ pc = "done"
    /\ pc' = "idle"
    /\ returned' = Append(returned, Return(alerts))
    /\ alert_file' = alerts
    /\ responses' = Append(responses, Response(Len(alerts), Slice(alerts, limit), FALSE))
    /\ UNCHANGED <<signals, now, t0, alerts, candidates, judged, raw_file, reply>>

\* the exception is not caught: the request fails and nothing is sent
get_alerts_BUG_uncaught ==
    /\ pc = "raised"
    /\ pc' = "failed"
    /\ returned' = Append(returned, Raise)
    /\ UNCHANGED <<signals, now, t0, alerts, candidates, judged, responses, alert_file, raw_file, reply>>

\* `except Exception as e:` the error is logged and an empty list is sent
get_alerts_except ==
    /\ pc = "raised"
    /\ pc' = "idle"
    /\ returned' = Append(returned, Raise)
    /\ responses' = Append(responses, Response(0, <<>>, TRUE))
    /\ UNCHANGED <<signals, now, t0, alerts, candidates, judged, alert_file, raw_file, reply>>

NextApi ==
    \/ get_alerts_empty
    \/ get_alerts_call
    \/ \E r \in Rules : Call(r)
    \/ Escalate
    \/ \E limit \in Limits : get_alerts_return(limit)
    \/ get_alerts_except

\* requests served one after the other, on one stored signal list and with
\* the clock standing still
SpecApi == InitApi /\ [][NextApi]_vars

----------------------------------------------------------------------------
(* The comment endpoints in JSON storage mode.  src/main.py 83-101, 188-288 *)

\* the request bodies of POST /comments: village and comment texts; the
\* last comment text stands for one of 5001 characters
VillageTexts == {"Riverside", " Lakeview ", " "}
CommentTexts == {"fever in two houses", "", "<5001 characters>"}

\* str.strip()
strip(s) ==
    CASE s = " Lakeview " -> "Lakeview"
      [] s = " " -> ""
      [] OTHER -> s

\* NewComment.validate_input raises ValueError
Invalid(village, comment) ==
    \/ comment = "" \/ strip(comment) = ""
    \/ village = "" \/ strip(village) = ""
    \/ comment = "<5001 characters>"

\* the path parameters of DELETE /comments/{comment_id}
IdTexts == {ToString(n) : n \in 1..(MaxComments + 1)} \cup {"abc"}

\* int(comment_id) succeeds
int_ok(text) == \E n \in 1..(MaxComments + 1) : ToString(n) = text

\* int(comment_id)
int(text) == CHOOSE n \in 1..(MaxComments + 1) : ToString(n) = text

InitComments ==
    /\ signals = <<>>
    /\ now \in StartClocks
    /\ t0 = now
    /\ pc = "idle"
    /\ alerts = <<>>
    /\ candidates = <<>>
    /\ judged = {}
    /\ returned = <<>>
    /\ responses = <<>>
    /\ alert_file = <<>>
    /\ raw_file = <<>>
    /\ reply = <<>>

\* POST /comments: a body that fails validation is answered with 400; else
\* data = load_json(RAW_FILE, []); new_id = len(data) + 1; the record is
\* appended and the list saved
add_comment(user_id, village, comment) ==
    /\ IF Invalid(village, comment)
       THEN /\ reply' = [status |-> "error", code |-> 400]
            /\ UNCHANGED raw_file
       ELSE /\ Len(raw_file) < MaxComments
            /\ LET data == raw_file
                   new_id == Len(data) + 1
                   record == [user_id |-> user_id, village |-> strip(village),
                              comment |-> strip(comment), timestamp |-> now,
                              comment_id |-> new_id]
               IN  /\ raw_file' = Append(data, record)
                   /\ reply' = [status |-> "comment added", comment_id |-> new_id]
    /\ UNCHANGED <<signals, now, t0, pc, alerts, candidates, judged, returned, responses,
                   alert_file>>

\* DELETE /comments/{comment_id}: int() of a text that is no number raises
\* and the request fails; else the records with that id are filtered out
delete_comment(comment_id) ==
    /\ IF ~int_ok(comment_id)
       THEN /\ reply' = [status |-> "error", code |-> 500]
            /\ UNCHANGED raw_file
       ELSE /\ raw_file' = SelectSeq(raw_file, LAMBDA x : x.comment_id # int(comment_id))
            /\ reply' = [status |-> "deleted", comment_id |-> comment_id]
    /\ UNCHANGED <<signals, now, t0, pc, alerts, candidates, judged, returned, responses,
                   alert_file>>

NextComments ==
    \/ \E village \in VillageTexts, comment \in CommentTexts : add_comment(7, village, comment)
    \/ \E comment_id \in IdTexts : delete_comment(comment_id)

\* the two endpoints called one request after the other
SpecComments == InitComments /\ [][NextComments]_vars

----------------------------------------------------------------------------
(* Vocabulary of the properties *)

RuleName ==
    [A1 |-> "A1_HIGH_SEVERITY_CLUSTER", A2 |-> "A2_MIXED_SEVERITY",
     A3 |-> "A3_REPEATED_MEDIUM", B1 |-> "B1_VOLUME_24H", B2 |-> "B2_VOLUME_48H",
     B3 |-> "B3_EXTREME_VOLUME", C1 |-> "C1_SYMPTOM_DIVERSITY",
     C2 |-> "C2_FEVER_LOOSE_MOTION", C3 |-> "C3_WEAKNESS_DOMINANT",
     D1 |-> "D1_RISING_TREND", D2 |-> "D2_CONTINUOUS_REPORTING",
     D3 |-> "D3_LONG_TAIL", E1 |-> "E1_WEIGHTED_SCORE", E2 |-> "E2_SCORE_GROWTH"]

Suffix == " (multiple rules triggered)"

Rank(level) ==
    CASE level = "LOW" -> 1 [] level = "MEDIUM" -> 2
      [] level = "HIGH" -> 3 [] level = "CRITICAL" -> 4

\* the positions of run_all_rules after the call of rule r has returned
Past(r) ==
    LET i == CHOOSE k \in DOMAIN RuleOrder : RuleOrder[k] = r
    IN  {RuleOrder[k] : k \in (i + 1)..Len(RuleOrder)} \cup {"F1", "done"}

\* the candidate list as far as it has been built
Cands == IF pc = "done" THEN candidates ELSE alerts

\* the positions of a list holding an alert of rule r for village v
At(list, r, v) ==
    {i \in DOMAIN list : list[i].rule = RuleName[r] /\ list[i].village = v}

\* how often a list holds x
Times(list, x) == Cardinality({i \in DOMAIN list : list[i] = x})

SameBag(l1, l2) ==
    /\ Len(l1) = Len(l2)
    /\ \A i \in DOMAIN l1 : Times(l1, l1[i]) = Times(l2, l1[i])

\* the number of signals of village v, of a severity in sevs, no older than h hours
InWindow(v, sevs, h) ==
    Cardinality({i \in DOMAIN signals :
        /\ signals[i].village = v
        /\ signals[i].severity \in sevs
        /\ parse_ok(signals[i].timestamp)
        /\ parse_time(signals[i].timestamp) >= t0 - h})

\* a candidate as the escalation pass hands it on
Escalated(c) == [c EXCEPT !.level = "HIGH", !.reason = @ \o <<Suffix>>]

IsEscalated(a) == a.level = "HIGH" /\ a.reason[Len(a.reason)] = Suffix

\* the number of candidates handed to the escalation pass for village v
Occurs(v) == Cardinality({i \in DOMAIN candidates : candidates[i].village = v})

\* the rules that produced a candidate for village v
RulesFired(v) ==
    {candidates[i].rule : i \in {j \in DOMAIN candidates : candidates[j].village = v}}

\* the input is exactly n signals of village v and severity sev, with
\* timestamps within the last hour before the reference instant
Scenario(n, v, sev) ==
    /\ Len(signals) = n
    /\ \A i \in DOMAIN signals :
          /\ signals[i].village = v
          /\ signals[i].severity = sev
          /\ parse_ok(signals[i].timestamp)
          /\ parse_time(signals[i].timestamp) \in (t0 - 1)..t0

Reverse(l) == [i \in DOMAIN l |-> l[Len(l) + 1 - i]]

SwapAt(l, i) ==
    [k \in DOMAIN l |-> IF k = i THEN l[i + 1] ELSE IF k = i + 1 THEN l[i] ELSE l[k]]

\* the list reversed, and the exchange of two unequal neighbours at the
\* first and at the last place where neighbours differ
Shuffles(l) ==
    LET differ == {k \in 1..(Len(l) - 1) : l[k] # l[k + 1]}
        ends == {k \in differ : (\A j \in differ : k <= j) \/ (\A j \in differ : k >= j)}
    IN  {Reverse(l)} \cup {SwapAt(l, i) : i \in ends}

----------------------------------------------------------------------------
\* C1: the escalation pass returns exactly the candidates whose village
\* occurs in at least two candidates of its argument, each with level HIGH
\* and the suffix appended to its reason; a candidate whose village occurs
\* once is absent from the result.
C1_EscalationByCount ==
    pc = "done" =>
        LET keep == {i \in DOMAIN candidates : Occurs(candidates[i].village) >= 2}
        IN  /\ Len(alerts) = Cardinality(keep)
            /\ \A i \in keep :
                  Times(alerts, Escalated(candidates[i])) =
                  Cardinality({j \in keep : Escalated(candidates[j]) = Escalated(candidates[i])})
            /\ \A i \in DOMAIN candidates :
                  Occurs(candidates[i].village) = 1 =>
                      \A k \in DOMAIN alerts : alerts[k].village # candidates[i].village

\* C1 witness: a run whose candidate list has a village with two or more
\* candidates and a village with one
C1_Witness ==
    /\ pc = "done"
    /\ \E i, j \in DOMAIN candidates :
          /\ Occurs(candidates[i].village) >= 2
          /\ Occurs(candidates[j].village) = 1

----------------------------------------------------------------------------
\* C2: a village for which exactly one of the fourteen rules fired has no
\* alert in the final output, however many candidates that rule emitted.
C2_SingleRuleNoAlert ==
    pc = "done" =>
        \A v \in Villages :
            Cardinality(RulesFired(v)) = 1 =>
                \A k \in DOMAIN alerts : alerts[k].village # v

----------------------------------------------------------------------------
\* C3 as stated: in scenario 1 (exactly three signals of Riverside with
\* severity high and timestamps within the last hour) A1 produces one HIGH
\* candidate, no other rule produces one, and the final output is empty.
C3_Scenario1_AsStated ==
    (pc = "done" /\ Scenario(3, "Riverside", "high")) =>
        /\ Cardinality(At(candidates, "A1", "Riverside")) = 1
        /\ \A i \in DOMAIN candidates : candidates[i].rule = RuleName.A1
        /\ alerts = <<>>

\* C3 as amended: in scenario 1 A1 produces one HIGH candidate for Riverside,
\* A2 and D1 each produce one too, no rule other than these and the symptom
\* rules C1 and C2 produces one, and the final output holds every candidate,
\* each with level HIGH and the suffix.
C3_Scenario1 ==
    (pc = "done" /\ Scenario(3, "Riverside", "high")) =>
        /\ \A r \in {"A1", "A2", "D1"} :
              /\ Cardinality(At(candidates, r, "Riverside")) = 1
              /\ Cardinality(At(alerts, r, "Riverside")) = 1
        /\ \A i \in At(candidates, "A1", "Riverside") : candidates[i].level = "HIGH"
        /\ \A i \in DOMAIN candidates :
              candidates[i].rule \in {RuleName[r] : r \in {"A1", "A2", "D1", "C1", "C2"}}
        /\ Len(alerts) = Len(candidates)
        /\ \A k \in DOMAIN alerts : IsEscalated(alerts[k])

\* C3 witness: a finished run on a scenario 1 input in which C1 fired too
C3_Witness ==
    /\ pc = "done"
    /\ Scenario(3, "Riverside", "high")
    /\ At(alerts, "C1", "Riverside") # {}

----------------------------------------------------------------------------
\* C4 as stated: in scenario 2 (exactly five signals of Lakeview with
\* severity medium and timestamps within the last hour) the final output is
\* exactly the B1 and the A3 alert, both HIGH with the suffix.
C4_Scenario2_AsStated ==
    (pc = "done" /\ Scenario(5, "Lakeview", "medium")) =>
        /\ Len(alerts) = 2
        /\ Cardinality(At(alerts, "B1", "Lakeview")) = 1
        /\ Cardinality(At(alerts, "A3", "Lakeview")) = 1
        /\ \A k \in DOMAIN alerts : IsEscalated(alerts[k])

\* C4 as amended: in scenario 2 the final output holds one alert each of A3,
\* B1, B2, D1 and E1 for Lakeview, besides these only alerts of the symptom
\* rules C1, C2 and C3, and every alert has level HIGH and the suffix.
C4_Scenario2 ==
    (pc = "done" /\ Scenario(5, "Lakeview", "medium")) =>
        /\ \A r \in {"A3", "B1", "B2", "D1", "E1"} :
              Cardinality(At(alerts, r, "Lakeview")) = 1
        /\ \A k \in DOMAIN alerts :
              /\ alerts[k].village = "Lakeview"
              /\ alerts[k].rule \in
                    {RuleName[r] : r \in {"A3", "B1", "B2", "D1", "E1", "C1", "C2", "C3"}}
              /\ IsEscalated(alerts[k])

\* C4 witness: a finished run on a scenario 2 input in which C1 fired too
C4_Witness ==
    /\ pc = "done"
    /\ Scenario(5, "Lakeview", "medium")
    /\ At(alerts, "C1", "Lakeview") # {}

----------------------------------------------------------------------------
\* C5: every alert of the final output has a level at least as severe as
\* the level its rule gave it (LOW < MEDIUM < HIGH < CRITICAL).
C5_OnlyUpgrades ==
    pc = "done" =>
        \A k \in DOMAIN alerts :
            \A i \in DOMAIN candidates :
                (candidates[i].rule = alerts[k].rule /\ candidates[i].village = alerts[k].village)
                    => Rank(alerts[k].level) >= Rank(candidates[i].level)

----------------------------------------------------------------------------
\* C6: within one run no signal is judged inside a lookback window by one
\* test and outside the same window by another, even when the wall clock
\* advances while the run is in progress.
C6_OneInstant ==
    \A x, y \in judged : (x[1] = y[1] /\ x[2] = y[2]) => x[3] = y[3]

----------------------------------------------------------------------------
\* C7: every alert of the final output has the village of an input signal.
C7_VillageFromInput ==
    pc = "done" =>
        \A k \in DOMAIN alerts :
            \E i \in DOMAIN signals : signals[i].village = alerts[k].village

\* C7 witness: a non-empty output that has no alert for one of the input's villages
C7_Witness ==
    /\ pc = "done"
    /\ alerts # <<>>
    /\ \E v \in Villages :
          /\ \E i \in DOMAIN signals : signals[i].village = v
          /\ \A k \in DOMAIN alerts : alerts[k].village # v

----------------------------------------------------------------------------
\* C8: A1 produces exactly one candidate, of level HIGH, for a village
\* when at least 3 of its signals have severity high and a timestamp no
\* older than 24h before the reference instant, and none otherwise.
C8_A1Threshold ==
    pc \in Past("A1") =>
        \A v \in Villages :
            /\ Cardinality(At(Cands, "A1", v)) = IF InWindow(v, {"high"}, 24) >= 3 THEN 1 ELSE 0
            /\ \A i \in At(Cands, "A1", v) : Cands[i].level = "HIGH"

\* C8 witness: A1 has fired on exactly 3 such signals, one of them exactly 24h old
C8_Witness ==
    /\ pc = "A2"
    /\ \E v \in Villages :
          /\ InWindow(v, {"high"}, 24) = 3
          /\ InWindow(v, {"high"}, 23) = 2
          /\ At(alerts, "A1", v) # {}

----------------------------------------------------------------------------
\* C9: B3 produces a candidate for a village exactly when at least 10 of
\* its signals are no older than 48h; then B2 has one too, on the same
\* count, and B3's level CRITICAL is above B2's level HIGH.
C9_B3Threshold ==
    pc \in Past("B3") =>
        \A v \in Villages :
            /\ (At(Cands, "B3", v) # {}) <=> (InWindow(v, Severities, 48) >= 10)
            /\ \A i \in At(Cands, "B3", v) :
                  /\ Cands[i].level = "CRITICAL"
                  /\ \E j \in At(Cands, "B2", v) :
                        /\ Cands[j].reason[1] = Cands[i].reason[1]
                        /\ Cands[j].level = "HIGH"
                        /\ Rank(Cands[i].level) > Rank(Cands[j].level)

\* C9 witness: B3 has fired on exactly 10 signals, not all of them within 24h
C9_Witness ==
    /\ pc = "C1"
    /\ \E v \in Villages :
          /\ InWindow(v, Severities, 48) = 10
          /\ InWindow(v, Severities, 24) < 10
          /\ At(alerts, "B3", v) # {}

----------------------------------------------------------------------------
\* C10: two input lists that are permutations of each other give, for the
\* same reference instant, the same multiset of final alerts (and one
\* raises when the other does).
C10_OrderIndependent ==
    /\ pc = "done" =>
          \A p \in Shuffles(signals) :
              LET got == run_all_rules(p)
              IN  got.ok /\ SameBag(got.alerts, alerts)
    /\ pc = "raised" =>
          \A p \in Shuffles(signals) : ~run_all_rules(p).ok

\* C10 witness: both villages have alerts, and the reversed input gives them
\* in another order
C10_Witness ==
    /\ pc = "done"
    /\ {alerts[k].village : k \in DOMAIN alerts} = Villages
    /\ run_all_rules(Reverse(signals)).alerts # alerts

----------------------------------------------------------------------------
\* the place of a rule name in the order run_all_rules calls the rules in
RuleIndex(name) == CHOOSE k \in DOMAIN RuleOrder : RuleName[RuleOrder[k]] = name

\* sub is list with some elements left out and the others escalated
RECURSIVE Embeds(_, _)
Embeds(sub, list) ==
    IF sub = <<>> THEN TRUE
    ELSE IF list = <<>> THEN FALSE
    ELSE IF sub[1] = Escalated(list[1]) THEN Embeds(Tail(sub), Tail(list))
    ELSE Embeds(sub, Tail(list))

\* C11: the candidate list holds the rules' alerts in the order A1 .. E2,
\* the returned list is the candidate list with some candidates left out
\* and none moved, so an alert of an earlier rule precedes every alert of
\* a later rule in the result.
C11_OrderKept ==
    pc = "done" =>
        /\ \A i, j \in DOMAIN candidates :
              i < j => RuleIndex(candidates[i].rule) <= RuleIndex(candidates[j].rule)
        /\ Embeds(alerts, candidates)
        /\ \A i, j \in DOMAIN alerts :
              i < j => RuleIndex(alerts[i].rule) <= RuleIndex(alerts[j].rule)

\* C11 witness: a candidate is removed from between two candidates that
\* stay, and the result holds alerts of several rules
C11_Witness ==
    /\ pc = "done"
    /\ \E i, j, k \in DOMAIN candidates :
          /\ i < j /\ j < k
          /\ Occurs(candidates[i].village) >= 2
          /\ Occurs(candidates[j].village) = 1
          /\ Occurs(candidates[k].village) >= 2
    /\ \E a, b \in DOMAIN alerts : alerts[a].rule # alerts[b].rule

----------------------------------------------------------------------------
\* the positions of the signals whose timestamp does not parse
BadStamps == {i \in DOMAIN signals : ~parse_ok(signals[i].timestamp)}

\* C12: when any signal of the input has a timestamp that does not parse,
\* whatever its position, severity and symptoms and whatever the other
\* signals are, the run is over by the call of A2 at the latest: it never
\* gets past A2, it returns no alert list, and the call of A2 raises.
C12_FailFast ==
    BadStamps # {} =>
        /\ pc \in {"idle", "A1", "A2", "raised"}
        /\ ~rule_A2_mixed_severity(signals).ok

\* C12 witness: a run has raised on a signal of low severity with three
\* symptoms, the last of ten signals, all the others being well-formed
C12_Witness ==
    /\ pc = "raised"
    /\ Len(signals) = 10
    /\ BadStamps = {10}
    /\ signals[10].severity = "low"
    /\ Cardinality(SetOf(symptoms_of(signals[10]))) >= 3

----------------------------------------------------------------------------
\* the severities the rules name
Known == {"low", "medium", "high"}

\* the positions of the signals with any other severity
Unknown == {i \in DOMAIN signals : signals[i].severity \notin Known}

\* the input with every other severity replaced by a known one
AsLow ==
    [i \in DOMAIN signals |->
        IF i \in Unknown THEN [signals[i] EXCEPT !.severity = "low"] ELSE signals[i]]

\* the input without the signals of another severity
KnownOnly == SelectSeq(signals, LAMBDA s : s.severity \in Known)

\* the alerts of rule r in a list
OfRule(list, r) == SelectSeq(list, LAMBDA a : a.rule = RuleName[r])

\* C13: a severity other than low, medium and high is no error; B1, B2,
\* B3, D1 and D2 count the signal like any other, and A1, A2, A3, D3, E1
\* and E2 produce what they produce without it (it adds 0 to the scores).
C13_UnknownSeverity ==
    Unknown # {} =>
        /\ pc = "raised" => BadStamps # {}
        /\ pc = "done" =>
              /\ \A r \in {"B1", "B2", "B3", "D1", "D2"} :
                    OfRule(candidates, r) = CallOf(r, AsLow).alerts
              /\ \A r \in {"A1", "A2", "A3", "D3", "E1", "E2"} :
                    SameBag(OfRule(candidates, r), CallOf(r, KnownOnly).alerts)

\* C13 witness: B1 has fired for a village that has fewer than five
\* signals of a known severity in the window, and the score E1 reports
\* for the village is the weight of its signals of a known severity
C13_Witness ==
    /\ pc = "done"
    /\ \E i \in Unknown :
          LET v == signals[i].village
              weight == 3 * InWindow(v, {"high"}, 24) + 2 * InWindow(v, {"medium"}, 24)
                        + InWindow(v, {"low"}, 24)
          IN  /\ At(candidates, "B1", v) # {}
              /\ InWindow(v, Known, 24) < 5
              /\ \E k \in At(candidates, "E1", v) :
                    candidates[k].reason[2] = ToString(weight)

----------------------------------------------------------------------------
\* the positions of the signals that list three or more different symptoms
DiverseAt == {i \in DOMAIN signals : Cardinality(SetOf(symptoms_of(signals[i]))) >= 3}

\* C14: a signal with three or more different symptoms makes C1 emit a
\* MEDIUM candidate for its village whatever its timestamp is: on every
\* input list C1 returns one without an error, and in a run that reaches
\* C1 what it returns is in the candidate list.
C14_NoLookback ==
    LET got == rule_C1_symptom_diversity(signals)
    IN  /\ pc = "idle" =>
              /\ got.ok
              /\ \A i \in DiverseAt :
                    \E k \in DOMAIN got.alerts :
                        got.alerts[k] =
                            Alert("C1_SYMPTOM_DIVERSITY", "MEDIUM", signals[i].village,
                                  <<"Single report has 3+ symptoms">>)
        /\ pc \in Past("C1") => OfRule(Cands, "C1") = got.alerts

\* C14 witness: a run is past C1 with a candidate of C1 for a village
\* whose only signal of three symptoms is more than 72 hours old
C14_Witness ==
    /\ pc \in Past("C1")
    /\ \E i \in DiverseAt :
          /\ parse_time(signals[i].timestamp) < t0 - 72
          /\ \A j \in DiverseAt : signals[j].village = signals[i].village => j = i
          /\ At(Cands, "C1", signals[i].village) # {}

----------------------------------------------------------------------------
\* the scores E1 computes on the input sigs
E1_table(sigs) ==
    LET sel == SelectSeq(sigs, LAMBDA s : within_hours(s.timestamp, 24))
    IN  E1_scores(sel, Len(sel))

\* the score E1 computes for village v on the input sigs
E1_score(sigs, v) == DictGet(E1_table(sigs), v, 0)

\* the changes of a severity the claim calls raising it
Upgrades == {<<"low", "medium">>, <<"medium", "high">>, <<"low", "high">>}

\* C15: raising the severity of one signal of the input (low to medium,
\* medium to high, low to high) lowers the E1 score of no village, and
\* every village E1 fired for in the run has an E1 alert on the raised
\* input too.
C15_E1Monotone ==
    pc = "E2" =>
        LET before == E1_table(signals)
        IN  \A i \in DOMAIN signals : \A u \in Upgrades :
                signals[i].severity = u[1] =>
                    LET raised == [signals EXCEPT ![i].severity = u[2]]
                        scores == E1_table(raised)
                        after == rule_E1_weighted_score(raised)
                    IN  /\ after.ok
                        /\ \A v \in Villages :
                              /\ DictGet(scores, v, 0) >= DictGet(before, v, 0)
                              /\ At(alerts, "E1", v) # {} =>
                                    At(after.alerts, "E1", v) # {}

\* C15 witness: E1 has fired for a village that has a signal of medium
\* severity inside the window, and raising it raises the score
C15_Witness ==
    /\ pc = "E2"
    /\ \E i \in DOMAIN signals :
          LET v == signals[i].village
              raised == [signals EXCEPT ![i].severity = "high"]
          IN  /\ signals[i].severity = "medium"
              /\ At(alerts, "E1", v) # {}
              /\ E1_score(raised, v) > E1_score(signals, v)

----------------------------------------------------------------------------
\* C16: two evaluations of run_all_rules on the same signal list, the
\* clock reading the same instant in both, return the same: the same
\* alerts in the same order with the same levels and reasons, or an error
\* both times.  Nothing the first evaluation did changes the second.
C16_Deterministic ==
    \A j, k \in DOMAIN returned : returned[j] = returned[k]

\* C16 witness: the second evaluation has returned, and what it returned
\* is a list of two or more alerts
C16_Witness ==
    /\ Len(returned) = 2
    /\ returned[2].ok
    /\ Len(returned[2].alerts) >= 2

\* C17: when the loaded signal list is empty, and when run_all_rules has
\* raised an error, the step get_alerts takes is to send a response with
\* alert_count 0 and an empty alerts list.
C17_Degrades ==
    [][(pc = "raised" \/ (pc = "idle" /\ signals = <<>>)) =>
          /\ Len(responses') = Len(responses) + 1
          /\ responses'[Len(responses')].alert_count = 0
          /\ responses'[Len(responses')].alerts = <<>>]_vars

\* C17 witness: a request has been answered with the empty list after
\* run_all_rules raised on a signal that has no village key
C17_Witness ==
    /\ pc = "idle"
    /\ returned # <<>>
    /\ ~returned[Len(returned)].ok
    /\ responses[Len(responses)] = Response(0, <<>>, TRUE)
    /\ \E i \in DOMAIN signals : "village" \notin DOMAIN signals[i]
    /\ \A i \in DOMAIN signals :
          "severity" \in DOMAIN signals[i] /\ parse_ok(signals[i].timestamp)

----------------------------------------------------------------------------
\* the number of signals of village v with a timestamp from lo to hi
\* hours after the instant the run started at
Between(v, lo, hi) ==
    Cardinality({i \in DOMAIN signals :
        /\ signals[i].village = v
        /\ parse_time(signals[i].timestamp) - t0 \in lo..hi})

\* C18: D1 has a MEDIUM candidate for village v exactly when curr > prev
\* and curr >= 3, curr counting the signals of v from now-12h to now and
\* prev those from now-24h to just before now-12h; a signal later than
\* now is in neither count.
C18_D1Windows ==
    pc \in Past("D1") =>
        \A v \in Villages :
            LET curr == Between(v, -12, 0)
                prev == Between(v, -24, -13)
            IN  /\ At(Cands, "D1", v) # {} <=> (curr > prev /\ curr >= 3)
                /\ \A k \in At(Cands, "D1", v) : Cands[k].level = "MEDIUM"

----------------------------------------------------------------------------
\* the weights of the signals of village v with a timestamp from lo to hi
\* hours after the instant the run started at, summed
WeightBetween(v, lo, hi) ==
    LET n(sev) == Cardinality({i \in DOMAIN signals :
                      /\ signals[i].village = v
                      /\ signals[i].severity = sev
                      /\ parse_time(signals[i].timestamp) - t0 \in lo..hi})
    IN  n("low") + 2 * n("medium") + 3 * n("high")

\* a span of hours longer than any the inputs reach into the future
Ahead == 24 * 365

\* C19: E2 has a MEDIUM candidate for village v exactly when prev > 0 and
\* 2*curr >= 3*prev, curr being the summed weights of the signals of v
\* no older than 24h and prev those from now-48h to just before now-24h;
\* a village whose prev is 0 has no E2 candidate whatever curr is.
C19_E2Growth ==
    pc \in Past("E2") =>
        \A v \in Villages :
            LET curr == WeightBetween(v, -24, Ahead)
                prev == WeightBetween(v, -48, -25)
            IN  /\ At(Cands, "E2", v) # {} <=> (prev > 0 /\ 2 * curr >= 3 * prev)
                /\ \A k \in At(Cands, "E2", v) : Cands[k].level = "MEDIUM"
                /\ prev = 0 => At(Cands, "E2", v) = {}

\* C19 witness: E2 has fired for a village at curr = 1.5 * prev exactly,
\* and has not fired for a village that has reports but none in the
\* previous window
C19_Witness ==
    /\ pc \in Past("E2")
    /\ \E v \in Villages :
          /\ At(Cands, "E2", v) # {}
          /\ 2 * WeightBetween(v, -24, Ahead) = 3 * WeightBetween(v, -48, -25)
    /\ \E v \in Villages :
          /\ At(Cands, "E2", v) = {}
          /\ WeightBetween(v, -24, Ahead) > 0
          /\ WeightBetween(v, -48, -25) = 0

----------------------------------------------------------------------------
\* the different values in the symptom list of signal i, none when the
\* signal has no such list
Distinct(i) ==
    IF "symptoms" \in DOMAIN signals[i]
    THEN {signals[i].symptoms[k] : k \in DOMAIN signals[i].symptoms}
    ELSE {}

\* the number of places up to i where signal i's village has a signal with
\* three or more different symptoms
Nth(i) ==
    Cardinality({j \in 1..i :
        signals[j].village = signals[i].village /\ Cardinality(Distinct(j)) >= 3})

\* C20: C1 emits, for each village, as many candidates as the village has
\* input signals with three or more different symptoms (a symptom listed
\* twice counts once, a missing list is empty), none merged, and the
\* candidates stand in the order of the signals they come from.
C20_NoDedup ==
    pc \in Past("C1") =>
        LET out == OfRule(Cands, "C1")
            from == {i \in DOMAIN signals : Cardinality(Distinct(i)) >= 3}
        IN  /\ Len(out) = Cardinality(from)
            /\ \A v \in Villages :
                  Cardinality({k \in DOMAIN out : out[k].village = v}) =
                  Cardinality({i \in from : signals[i].village = v})
            /\ \A i \in from :
                  out[Cardinality({j \in from : j <= i})].village = signals[i].village

\* C20 witness: a village has two or more C1 candidates, the other
\* village has one that comes after them, and a signal with fewer than
\* three different symptoms has no candidate
C20_Witness ==
    /\ pc \in Past("C1")
    /\ \E i, j \in DOMAIN signals :
          /\ i < j
          /\ signals[i].village # signals[j].village
          /\ Nth(i) >= 2
          /\ Cardinality(Distinct(i)) >= 3
          /\ Cardinality(Distinct(j)) >= 3
          /\ At(OfRule(Cands, "C1"), "C1", signals[j].village) # {}
    /\ \E i \in DOMAIN signals :
          /\ Cardinality(Distinct(i)) < 3
          /\ Len(OfRule(Cands, "C1")) < Len(signals)

----------------------------------------------------------------------------
\* C21: in a run that read one clock value throughout and came to its
\* end, a village with a candidate of A1 has one of A2, a village with a
\* candidate of A3, B1 or B3 has one of B2, and a village with a candidate
\* of E1 has one of A2 or of B1; so every candidate of these five rules is
\* in the returned list, escalated.
C21_CoFiring ==
    pc = "done" =>
        /\ \A v \in Villages :
              /\ At(candidates, "A1", v) # {} => At(candidates, "A2", v) # {}
              /\ \A r \in {"A3", "B1", "B3"} :
                    At(candidates, r, v) # {} => At(candidates, "B2", v) # {}
              /\ At(candidates, "E1", v) # {} =>
                    (At(candidates, "A2", v) # {} \/ At(candidates, "B1", v) # {})
        /\ \A i \in DOMAIN candidates :
              candidates[i].rule \in {RuleName[r] : r \in {"A1", "A3", "B1", "B3", "E1"}} =>
                  \E k \in DOMAIN alerts : alerts[k] = Escalated(candidates[i])

\* C21 witness: E1 has fired for a village B1 has not fired for, A3 has
\* fired for a village A1 has not fired for, and the E1 and A3 alerts
\* are in the returned list
C21_Witness ==
    /\ pc = "done"
    /\ \E v \in Villages :
          /\ At(alerts, "E1", v) # {}
          /\ At(candidates, "B1", v) = {}
    /\ \E v \in Villages :
          /\ At(alerts, "A3", v) # {}
          /\ At(candidates, "A1", v) = {}

----------------------------------------------------------------------------
\* C22: after any sequence of add_comment and delete_comment calls no two
\* comments stored in RAW_FILE have the same comment_id, and the id
\* add_comment has just returned is the id of the new comment alone.
C22_UniqueIds ==
    /\ \A i, j \in DOMAIN raw_file :
          i # j => raw_file[i].comment_id # raw_file[j].comment_id
    /\ (reply # <<>> /\ reply.status = "comment added") =>
          Cardinality({i \in DOMAIN raw_file : raw_file[i].comment_id = reply.comment_id}) = 1

====
